---- MODULE Spec2Model ----
(***************************************************************************)
(* Model of github.com/szxp/log: the routing and filtering engine.         *)
(*                                                                         *)
(* Two router implementations live in the sources:                         *)
(*   - defaultRouter (sync.Mutex, Output struct, errorHandler field),      *)
(*   - router        (sync.RWMutex, returned by NewRouter, onError field). *)
(* The variable impl fixes which of the two a behaviour is about; Spec is  *)
(* the defaultRouter, SpecRouter is the router returned by NewRouter.      *)
(***************************************************************************)
EXTENDS Naturals, Sequences, FiniteSets, TLC

(***************************************************************************)
(* Bounds of the model.                                                    *)
(***************************************************************************)
MaxLog == 2

\* Longest list of sub-filters given to And and Or.
MaxFilters == 3

\* Calls of Logger.Log in one behaviour.
MaxLoggerCalls == 2

(***************************************************************************)
(* Dynamic values (interface{}): tagged records.                           *)
(***************************************************************************)
Nil == [t |-> "nil"]

Str(s) == [t |-> "str", s |-> s]

Int(n) == [t |-> "int", n |-> n]

Bool(b) == [t |-> "bool", b |-> b]

FieldsV(m) == [t |-> "fields", m |-> m]

Slice(e) == [t |-> "slice", e |-> e]

EmptyFields == [k \in {} |-> Nil]

FieldTime == "time"

FieldLogger == "logger"

FieldFile == "file"

FieldSort == "_sort"

(***************************************************************************)
(* Fields.Value: walk the path one component at a time.                    *)
(***************************************************************************)
\* Variant: a value that is not a Fields at a step before the last is returned
\* as found.
RECURSIVE ValueStopsAtScalar(_, _)
ValueStopsAtScalar(f, path) ==
  IF path = <<>> THEN [v |-> Nil, ok |-> FALSE]
  ELSE LET field == Head(path) IN
       IF field \notin DOMAIN f THEN [v |-> Nil, ok |-> FALSE]
       ELSE IF Len(path) = 1 THEN [v |-> f[field], ok |-> TRUE]
       ELSE IF f[field].t # "fields" THEN [v |-> f[field], ok |-> TRUE]
       ELSE ValueStopsAtScalar(f[field].m, Tail(path))

RECURSIVE Value(_, _)
Value(f, path) ==
  IF path = <<>> THEN [v |-> Nil, ok |-> FALSE]
  ELSE LET field == Head(path) IN
       IF field \notin DOMAIN f THEN [v |-> Nil, ok |-> FALSE]
       ELSE IF Len(path) = 1 THEN [v |-> f[field], ok |-> TRUE]
       ELSE IF f[field].t # "fields" THEN [v |-> Nil, ok |-> FALSE]
       ELSE Value(f[field].m, Tail(path))

(***************************************************************************)
(* strings.Split(path, "."): a path string is a sequence of tokens, the    *)
(* token "." being the separator and every other token a run of            *)
(* characters without a dot.  Split("") is the one-element list [""].      *)
(***************************************************************************)
RECURSIVE Split(_)
Split(s) ==
  IF s = <<>> THEN <<"">>
  ELSE IF Head(s) = "." THEN <<"">> \o Split(Tail(s))
  ELSE IF Len(s) = 1 THEN <<Head(s)>>
  ELSE IF s[2] = "." THEN <<Head(s)>> \o Split(Tail(Tail(s)))
  ELSE Split(Tail(s))

(***************************************************************************)
(* Filters.  NoFilter is the nil Filter; "custom" is a user supplied       *)
(* implementation of the Filter interface that returns (match, err).       *)
(***************************************************************************)
NoFilter == [k |-> "nil"]

FieldExist(path) == [k |-> "fieldExist", path |-> Split(path)]

Eq(path, value) == [k |-> "eq", path |-> Split(path), value |-> value]

And(filters) == [k |-> "and", filters |-> filters]

Or(filters) == [k |-> "or", filters |-> filters]

Not(filter) == [k |-> "not", filter |-> filter]

CustomFilter(match, err) == [k |-> "custom", match |-> match, err |-> err]

NoErr == ""

\* Go's == on two interface{} values: different dynamic types are unequal,
\* identical uncomparable dynamic types (map, slice) panic at run time.
InterfaceEq(a, b) ==
  IF a.t # b.t THEN [eq |-> FALSE, panic |-> FALSE]
  ELSE IF a.t \in {"fields", "slice"} THEN [eq |-> FALSE, panic |-> TRUE]
  ELSE [eq |-> a = b, panic |-> FALSE]

\* What a call of Match gives: the two return values, whether it panicked
\* instead of returning, and the sub-filters whose Match it called, in order.
MatchResult(match, err, panic) ==
  [match |-> match, err |-> err, panic |-> panic, evaluated |-> <<>>]

\* r, after calling the Match of sub-filter f first.
After(f, r) == [r EXCEPT !.evaluated = <<f>> \o @]

RECURSIVE Match(_, _), andMatch(_, _), orMatch(_, _)
\* Variant: a nil value under the final key counts as absent.
fieldExistMatchNonNil(e, fields) ==
  MatchResult(Value(fields, e.path).ok /\ Value(fields, e.path).v # Nil, NoErr, FALSE)

fieldExistMatch(e, fields) ==
  MatchResult(Value(fields, e.path).ok, NoErr, FALSE)

eqMatch(e, fields) ==
  LET r == Value(fields, e.path) IN
  IF ~r.ok THEN MatchResult(FALSE, NoErr, FALSE)
  ELSE LET c == InterfaceEq(e.value, r.v) IN MatchResult(c.eq, NoErr, c.panic)

\* Variant: the loop does not stop at a sub-filter that returns false.
RECURSIVE andMatchNoShortCircuit(_, _)
andMatchNoShortCircuit(filters, fields) ==
  IF filters = <<>> THEN MatchResult(TRUE, NoErr, FALSE)
  ELSE LET f == Head(filters)
           r == Match(f, fields)
       IN IF r.panic THEN After(f, MatchResult(FALSE, NoErr, TRUE))
          ELSE IF r.err # NoErr THEN After(f, MatchResult(FALSE, r.err, FALSE))
          ELSE LET rest == andMatchNoShortCircuit(Tail(filters), fields) IN
               After(f, [rest EXCEPT !.match = @ /\ r.match])

andMatch(filters, fields) ==
  IF filters = <<>> THEN MatchResult(TRUE, NoErr, FALSE)
  ELSE LET f == Head(filters)
           r == Match(f, fields)
       IN IF r.panic THEN After(f, MatchResult(FALSE, NoErr, TRUE))
          ELSE IF r.err # NoErr THEN After(f, MatchResult(FALSE, r.err, FALSE))
          ELSE IF ~r.match THEN After(f, MatchResult(FALSE, NoErr, FALSE))
          ELSE After(f, andMatch(Tail(filters), fields))

\* Variant: the loop does not stop at a sub-filter that returns true.
RECURSIVE orMatchNoShortCircuit(_, _)
orMatchNoShortCircuit(filters, fields) ==
  IF filters = <<>> THEN MatchResult(FALSE, NoErr, FALSE)
  ELSE LET f == Head(filters)
           r == Match(f, fields)
       IN IF r.panic THEN After(f, MatchResult(FALSE, NoErr, TRUE))
          ELSE IF r.err # NoErr THEN After(f, MatchResult(FALSE, r.err, FALSE))
          ELSE LET rest == orMatchNoShortCircuit(Tail(filters), fields) IN
               After(f, [rest EXCEPT !.match = @ \/ (r.match /\ rest.err = NoErr
                                                                /\ ~rest.panic)])

orMatch(filters, fields) ==
  IF filters = <<>> THEN MatchResult(FALSE, NoErr, FALSE)
  ELSE LET f == Head(filters)
           r == Match(f, fields)
       IN IF r.panic THEN After(f, MatchResult(FALSE, NoErr, TRUE))
          ELSE IF r.err # NoErr THEN After(f, MatchResult(FALSE, r.err, FALSE))
          ELSE IF r.match THEN After(f, MatchResult(TRUE, NoErr, FALSE))
          ELSE After(f, orMatch(Tail(filters), fields))

\* Variant: the match of the sub-filter is returned as it is.
notMatchNoNegation(n, fields) ==
  LET r == Match(n.filter, fields) IN
  IF r.panic THEN After(n.filter, MatchResult(FALSE, NoErr, TRUE))
  ELSE IF r.err # NoErr THEN After(n.filter, MatchResult(FALSE, r.err, FALSE))
  ELSE After(n.filter, MatchResult(r.match, NoErr, FALSE))

notMatch(n, fields) ==
  LET r == Match(n.filter, fields) IN
  IF r.panic THEN After(n.filter, MatchResult(FALSE, NoErr, TRUE))
  ELSE IF r.err # NoErr THEN After(n.filter, MatchResult(FALSE, r.err, FALSE))
  ELSE After(n.filter, MatchResult(~r.match, NoErr, FALSE))

Match(filter, fields) ==
  CASE filter.k = "fieldExist" -> fieldExistMatch(filter, fields)
    [] filter.k = "eq" -> eqMatch(filter, fields)
    [] filter.k = "and" -> andMatch(filter.filters, fields)
    [] filter.k = "or" -> orMatch(filter.filters, fields)
    [] filter.k = "not" -> notMatch(filter, fields)
    [] filter.k = "custom" -> MatchResult(filter.match, filter.err, FALSE)

(***************************************************************************)
(* Formatters.  The default formatter is JSONFormatter, which calls        *)
(* json.Marshal and thereby Fields.MarshalJSON.  JSON text is modelled by  *)
(* its structure: an object is the sequence of its <<key, value>> members  *)
(* in the order they are emitted.                                          *)
(***************************************************************************)
Chan == [t |-> "chan"]

\* Keys the model uses, in the byte order sort.Strings puts them in.
KeyOrder == <<"a", "b", "file", "id", "level", "logger", "time", "user">>

\* Keys beginning with an underscore.
UnderscoreKeys == {"_sort", "_ignoreit"}

SkippedKey(k) == k = "" \/ k \in UnderscoreKeys

\* Variant: the keys are put in decreasing order.
SortStringsDecreasing(keys) ==
  LET inc == SelectSeq(KeyOrder, LAMBDA k : k \in keys)
  IN [i \in 1..Len(inc) |-> inc[Len(inc) + 1 - i]]

SortStrings(keys) == SelectSeq(KeyOrder, LAMBDA k : k \in keys)

Perms(S) ==
  {s \in [1..Cardinality(S) -> S] : \A i, j \in 1..Cardinality(S) : i # j => s[i] # s[j]}

JSONUnsupported == "json: unsupported type"

MarshalResult(out, v, err, panic) ==
  [out |-> out, v |-> v, err |-> err, panic |-> panic]

RECURSIVE jsonMarshal(_), MarshalJSON(_), marshalKeys(_, _, _), marshalElems(_)
\* The loop of MarshalJSON over the chosen key order.  A nested Fields value
\* without its own "_sort" key gets the parent's setting written into it
\* before it is marshalled.  Results carry the map as the loop leaves it.
marshalKeys(f, ord, sorted) ==
  IF ord = <<>> THEN {[kv |-> <<>>, f |-> f, err |-> NoErr, panic |-> FALSE]}
  ELSE LET k == Head(ord)
           v == f[k]
           v1 == IF v.t = "fields" /\ FieldSort \notin DOMAIN v.m
                 THEN FieldsV([x \in DOMAIN v.m \cup {FieldSort} |->
                                 IF x = FieldSort THEN Bool(sorted) ELSE v.m[x]])
                 ELSE v
       IN UNION {
            LET f1 == [f EXCEPT ![k] = r.v] IN
            IF r.panic \/ r.err # NoErr
            THEN {[kv |-> <<>>, f |-> f1, err |-> r.err, panic |-> r.panic]}
            ELSE {[kv |-> <<<<k, r.out>>>> \o rest.kv, f |-> rest.f,
                   err |-> rest.err, panic |-> rest.panic] :
                     rest \in marshalKeys(f1, Tail(ord), sorted)}
            : r \in jsonMarshal(v1)}

marshalElems(e) ==
  IF e = <<>> THEN {[out |-> <<>>, e |-> <<>>, err |-> NoErr, panic |-> FALSE]}
  ELSE UNION {
         IF r.panic \/ r.err # NoErr
         THEN {[out |-> <<>>, e |-> <<r.v>> \o Tail(e), err |-> r.err, panic |-> r.panic]}
         ELSE {[out |-> <<r.out>> \o rest.out, e |-> <<r.v>> \o rest.e,
                err |-> rest.err, panic |-> rest.panic] :
                  rest \in marshalElems(Tail(e))}
         : r \in jsonMarshal(Head(e))}

\* Fields.MarshalJSON on the map f: the set of results the unspecified map
\* iteration order allows.
MarshalJSON(f) ==
  LET keys == {k \in DOMAIN f : ~SkippedKey(k)}
      hasSort == FieldSort \in DOMAIN f
  IN IF hasSort /\ f[FieldSort].t # "bool"
     THEN {[kv |-> <<>>, f |-> f, err |-> NoErr, panic |-> TRUE]}
     ELSE LET sorted == hasSort /\ f[FieldSort].b
              orders == IF sorted THEN {SortStrings(keys)} ELSE Perms(keys)
          IN UNION {marshalKeys(f, ord, sorted) : ord \in orders}

\* json.Marshal(v).
jsonMarshal(v) ==
  CASE v.t = "fields" ->
         {MarshalResult([t |-> "obj", kv |-> r.kv], FieldsV(r.f), r.err, r.panic) :
            r \in MarshalJSON(v.m)}
    [] v.t = "slice" ->
         {MarshalResult([t |-> "arr", e |-> r.out], Slice(r.e), r.err, r.panic) :
            r \in marshalElems(v.e)}
    [] v.t = "chan" -> {MarshalResult(Nil, v, JSONUnsupported, FALSE)}
    [] OTHER -> {MarshalResult(v, v, NoErr, FALSE)}

NoFormatter == [k |-> "nil"]

JSONFormatter == [k |-> "json"]

\* A user supplied Formatter that returns (out, err).
CustomFormatter(out, err) == [k |-> "custom", out |-> out, err |-> err]

DefaultFormatter == JSONFormatter

\* Formatter.Format(fields): the possible (bytes, error) results, with the
\* message as the call leaves it.  A failed call returns no bytes.
Format(formatter, fields) ==
  IF formatter.k = "json"
  THEN {[b |-> IF r.err # NoErr \/ r.panic THEN Nil ELSE r.out,
         fields |-> r.v.m, err |-> r.err, panic |-> r.panic] :
          r \in jsonMarshal(FieldsV(fields))}
  ELSE {[b |-> IF formatter.err # NoErr THEN Nil ELSE Str(formatter.out),
         fields |-> fields, err |-> formatter.err, panic |-> FALSE]}

(***************************************************************************)
(* The universe the operations draw their inputs from.                     *)
(***************************************************************************)
Procs == {"g1", "g2"}

NoProc == "none"

Ids == {"a", "b"}

NoWriter == "nil"

Writers == {"w1", "w2"}

\* Writers whose Write always returns an error; the others always succeed.
FailingWriters == {"w2"}

NoHandler == "nil"

Handlers == {"h1"}

\* Error handlers that call back into the router from inside the callback:
\* one registers a destination, the other sets the error handler.
ReentrantHandlers == {"hRegister", "hOnError"}

ErrFilter == "filter failed"

ErrFormat == "format failed"

ErrWrite == "write failed"

NotDebug == Not(Eq(<<"level">>, Str("debug")))

IsDebug == Eq(<<"level">>, Str("debug"))

\* A filter whose value is a Fields object.
IsUser == Eq(<<"user">>, FieldsV([id |-> Int(1)]))

\* A filter on a key of the nested message that the caller does not set.
HasUserSort == FieldExist(<<"user", ".", "_sort">>)

FailingFormatter == CustomFormatter("rec", ErrFormat)

Messages ==
  { [level |-> Str("info"), user |-> FieldsV([id |-> Int(1)]), _sort |-> Bool(TRUE)] }

OutputArg(id, w, fm, fl) == [Id |-> id, Writer |-> w, Formatter |-> fm, Filter |-> fl]

\* The registrations the model draws from: every kind of destination under
\* id "a", and under id "b" the ones a second destination needs.
OutputArgs ==
  { OutputArg("a", "w1", NoFormatter, NoFilter),
    OutputArg("a", "w2", NoFormatter, NoFilter),
    OutputArg("a", NoWriter, NoFormatter, NoFilter),
    OutputArg("a", "w1", FailingFormatter, NoFilter),
    OutputArg("a", "w1", NoFormatter, NotDebug),
    OutputArg("a", "w1", NoFormatter, IsDebug),
    OutputArg("a", "w1", NoFormatter, CustomFilter(TRUE, ErrFilter)),
    OutputArg("a", "w1", NoFormatter, CustomFilter(FALSE, ErrFilter)),
    OutputArg("a", "w1", NoFormatter, IsUser),
    OutputArg("b", "w1", NoFormatter, NoFilter),
    OutputArg("b", "w2", NoFormatter, NoFilter),
    OutputArg("b", NoWriter, NoFormatter, NoFilter),
    OutputArg("b", "w1", FailingFormatter, IsDebug),
    OutputArg("b", "w1", FailingFormatter, NoFilter),
    OutputArg("b", "w1", NoFormatter, HasUserSort) }

VARIABLES
  impl,          \* "defaultRouter" or "router"
  mu,            \* the router's mutex: exclusive holder and shared holders
  outputs,       \* the registry: id -> [Writer, Formatter, Filter]
  errorHandler,  \* defaultRouter.errorHandler / router.onError
  sink,          \* what each writer has received, one chunk per Write call
  pc,            \* where each goroutine is
  fields,        \* Log: the message
  todo,          \* Log: ids the range loop has not visited yet
  cur,           \* Log: the id being handled
  buf,           \* Log: b, the formatted bytes
  wr,            \* Log: the writer struct {out, err}
  trace,         \* Log: what this call has done so far
  call,          \* Log: number of this call
  given,         \* Log: the message as it was when Log was called
  arg,           \* output: the Output passed in
  found,         \* output: ok of the map lookup
  out,           \* output: the entry being filled when the id is new
  pre,           \* output: the registry when the lock was taken
  nlog,          \* number of Log calls started
  defaultFormatter, \* the current value of the package variable DefaultFormatter
  regs,          \* history: per id, the Formatter passed to the last registration
                 \* and the default formatter that registration read
  onErrorHist,   \* history: the argument of the last OnError call and the
                 \* handler the last change of handler replaced
  op,            \* a direct call of a filter or of Fields.Value: its inputs
  result,        \* what that call returned
  callerFields,  \* the Fields variable the caller passes to Logger.Log:
                 \* nil, or a reference to a map with its present content
  now,           \* what time.Now() returns
  spy            \* routerSpy: one entry per call of Logger.Log, with what the
                 \* router's Log received

routerVars ==
  <<impl, mu, outputs, errorHandler, sink, pc, fields, todo, cur, buf, wr, trace,
    call, given, arg, found, out, pre, nlog, defaultFormatter, regs, onErrorHist>>

loggerVars == <<callerFields, now, spy>>

callVars == <<op, result, loggerVars>>

\* What the steps of Log and the locking steps of a registration leave alone.
ambient == <<impl, defaultFormatter, regs, onErrorHist, callVars>>

vars == <<routerVars, callVars>>

logLocals == <<fields, todo, cur, buf, wr, trace, call, given>>

outLocals == <<arg, found, out, pre>>

counters == <<nlog>>

NoOutput == [Writer |-> NoWriter, Formatter |-> NoFormatter, Filter |-> NoFilter]

NoArg == [Id |-> "", Writer |-> NoWriter, Formatter |-> NoFormatter, Filter |-> NoFilter]

NoMap == [i \in {} |-> NoOutput]

NoWr == [out |-> NoWriter, err |-> NoErr]

NoRegs == [i \in {} |-> [Formatter |-> NoFormatter, Default |-> NoFormatter]]

NoOp == [kind |-> "none"]

NoResult == [kind |-> "none"]

\* A Fields variable: nil, or a map.
NilFields == [isNil |-> TRUE, m |-> EmptyFields]

FieldsRef(m) == [isNil |-> FALSE, m |-> m]

InitLoggerVars ==
  /\ callerFields = NilFields
  /\ now = 1
  /\ spy = <<>>

InitRouterVars ==
  /\ mu = [w |-> NoProc, r |-> {}]
  /\ outputs = NoMap
  /\ errorHandler = NoHandler
  /\ sink = [w \in Writers |-> <<>>]
  /\ pc = [p \in Procs |-> "idle"]
  /\ fields = [p \in Procs |-> EmptyFields]
  /\ todo = [p \in Procs |-> {}]
  /\ cur = [p \in Procs |-> ""]
  /\ buf = [p \in Procs |-> Nil]
  /\ wr = [p \in Procs |-> NoWr]
  /\ trace = [p \in Procs |-> <<>>]
  /\ call = [p \in Procs |-> 0]
  /\ given = [p \in Procs |-> EmptyFields]
  /\ arg = [p \in Procs |-> NoArg]
  /\ found = [p \in Procs |-> FALSE]
  /\ out = [p \in Procs |-> NoOutput]
  /\ pre = [p \in Procs |-> NoMap]
  /\ nlog = 0
  /\ defaultFormatter = DefaultFormatter
  /\ regs = NoRegs
  /\ onErrorHist = [last |-> NoHandler, replaced |-> NoHandler]

InitCommon ==
  /\ InitRouterVars
  /\ InitLoggerVars
  /\ op = NoOp
  /\ result = NoResult

Init == impl = "defaultRouter" /\ InitCommon

InitRouter == impl = "router" /\ InitCommon

(***************************************************************************)
(* The lock.  defaultRouter.mu is a sync.Mutex; router.mu is a             *)
(* sync.RWMutex that Log takes with RLock.                                 *)
(***************************************************************************)
\* Variant: Lock does not wait for the holders of the mutex.
LockFreeNoWait == TRUE

LockFree == mu.w = NoProc /\ mu.r = {}

RLockFree == mu.w = NoProc

Lock(p) == [mu EXCEPT !.w = p]

RLock(p) == [mu EXCEPT !.r = @ \cup {p}]

Unlock(p) == [w |-> IF mu.w = p THEN NoProc ELSE mu.w, r |-> mu.r \ {p}]

\* Variant: Log does not take the mutex.
LogLockFreeNoLock == TRUE

LogLockFree == IF impl = "defaultRouter" THEN LockFree ELSE RLockFree

LogLocked(p) == IF impl = "defaultRouter" THEN Lock(p) ELSE RLock(p)

(***************************************************************************)
(* reportError.  defaultRouter tests the method value l.onError, which is  *)
(* never nil, and then calls the field l.errorHandler; router tests the    *)
(* field l.onError it calls.                                               *)
(***************************************************************************)
Ev(id, ev, ok, err, h) == [id |-> id, ev |-> ev, ok |-> ok, err |-> err, h |-> h]

PanicNilHandler == "nil errorHandler called"

PanicCompare == "comparing uncomparable type"

PanicConversion == "interface conversion: not bool"

PanicNilWriter == "nil Writer called"

HandlerTestPasses == IF impl = "defaultRouter" THEN TRUE ELSE errorHandler # NoHandler

\* Variant: reportError drops the error without calling the handler.
reportErrorDropped(tr, id, err) == [trace |-> tr, panic |-> FALSE]

reportError(tr, id, err) ==
  IF ~HandlerTestPasses THEN [trace |-> tr, panic |-> FALSE]
  ELSE IF errorHandler = NoHandler
       THEN [trace |-> Append(tr, Ev(id, "panic", FALSE, PanicNilHandler, NoHandler)),
             panic |-> TRUE]
       ELSE [trace |-> Append(tr, Ev(id, "report", TRUE, err, errorHandler)),
             panic |-> FALSE]

\* Variant: the handler is started in a goroutine of its own and Log goes on.
AfterReportAsync(rep, next) == IF rep.panic THEN "panic" ELSE next

\* Where Log is once reportError is over: l.errorHandler(err, fields, o) is an
\* ordinary call, so Log is inside the handler for as long as the handler
\* runs; a handler that does not call the router returns at once.
AfterReport(rep, next) ==
  IF rep.panic THEN "panic"
  ELSE IF /\ rep.trace # <<>>
          /\ rep.trace[Len(rep.trace)].ev = "report"
          /\ rep.trace[Len(rep.trace)].h \in ReentrantHandlers
       THEN "handler"
       ELSE next

\* Goroutine p is inside error handler h, called by its own Log.
InHandler(p, h) == pc[p] = "handler" /\ errorHandler = h

\* io.Writer.Write on w: TRUE is success.
WriteOutcomes(w) == IF w \in FailingWriters THEN {FALSE} ELSE {TRUE}

Chunk(c, id, part, b) == [call |-> c, id |-> id, part |-> part, b |-> b]

\* Variant: the record is terminated by two bytes.
NewlineCRLF == Str("\r\n")

Newline == Str("\n")

(***************************************************************************)
(* output / Output: register or update a destination.                      *)
(***************************************************************************)
\* l.mu.Lock(); out, ok := l.outputs[o.Id]; if !ok { out = o };
\* out.Writer = o.Writer
OutputLock(p, o) ==
  /\ pc[p] = "idle" \/ InHandler(p, "hRegister")
  /\ LockFree
  /\ mu' = Lock(p)
  /\ arg' = [arg EXCEPT ![p] = o]
  /\ found' = [found EXCEPT ![p] = o.Id \in DOMAIN outputs]
  /\ pre' = [pre EXCEPT ![p] = outputs]
  /\ out' = [out EXCEPT ![p] = [Writer |-> o.Writer, Formatter |-> o.Formatter,
                                Filter |-> o.Filter]]
  /\ outputs' = IF o.Id \in DOMAIN outputs
                THEN [outputs EXCEPT ![o.Id].Writer = o.Writer]
                ELSE outputs
  /\ pc' = [pc EXCEPT ![p] = "setFormatter"]
  /\ UNCHANGED <<ambient, errorHandler, sink, logLocals, counters>>

\* Variant: the formatter substituted for nil is the initial default, not the
\* value DefaultFormatter has when the registration runs.
FormatterOrInitialDefault(f) == IF f = NoFormatter THEN DefaultFormatter ELSE f

FormatterOrDefault(f) == IF f = NoFormatter THEN defaultFormatter ELSE f

\* Variant: the filter of an entry is not replaced.
SetFormatterKeepFilter(e, o) == [e EXCEPT !.Formatter = FormatterOrDefault(o.Formatter)]

\* out.Formatter = o.Formatter; if out.Formatter == nil { out.Formatter =
\* DefaultFormatter }; out.Filter = o.Filter
SetFormatterFilter(e, o) ==
  [e EXCEPT !.Formatter = FormatterOrDefault(o.Formatter), !.Filter = o.Filter]

\* Variant: a registration with a nil Writer removes the entry.
OutputFilterDropDisabled(p) ==
  /\ pc[p] = "setFormatter"
  /\ LET id == arg[p].Id IN
     outputs' = [i \in (DOMAIN outputs \cup {id}) \ (IF arg[p].Writer = NoWriter
                                                      THEN {id} ELSE {}) |->
                   IF i # id THEN outputs[i]
                   ELSE IF found[p] THEN SetFormatterFilter(outputs[id], arg[p])
                   ELSE SetFormatterFilter(out[p], arg[p])]
  /\ regs' = [i \in DOMAIN regs \cup {arg[p].Id} |->
                IF i # arg[p].Id THEN regs[i]
                ELSE [Formatter |-> arg[p].Formatter, Default |-> defaultFormatter]]
  /\ pc' = [pc EXCEPT ![p] = "registered"]
  /\ UNCHANGED <<impl, defaultFormatter, onErrorHist, callVars, mu, errorHandler, sink,
                 logLocals, outLocals, counters>>

\* The assignments to out.Formatter and out.Filter and l.outputs[out.Id] = out.
OutputFilter(p) ==
  /\ pc[p] = "setFormatter"
  /\ LET id == arg[p].Id IN
     outputs' = [i \in DOMAIN outputs \cup {id} |->
                   IF i # id THEN outputs[i]
                   ELSE IF found[p] THEN SetFormatterFilter(outputs[id], arg[p])
                   ELSE SetFormatterFilter(out[p], arg[p])]
  /\ regs' = [i \in DOMAIN regs \cup {arg[p].Id} |->
                IF i # arg[p].Id THEN regs[i]
                ELSE [Formatter |-> arg[p].Formatter, Default |-> defaultFormatter]]
  /\ pc' = [pc EXCEPT ![p] = "registered"]
  /\ UNCHANGED <<impl, defaultFormatter, onErrorHist, callVars, mu, errorHandler, sink,
                 logLocals, outLocals, counters>>

\* the deferred l.mu.Unlock()
OutputUnlock(p) ==
  /\ pc[p] = "registered"
  /\ mu' = Unlock(p)
  /\ pc' = [pc EXCEPT ![p] = "idle"]
  /\ arg' = [arg EXCEPT ![p] = NoArg]
  /\ found' = [found EXCEPT ![p] = FALSE]
  /\ out' = [out EXCEPT ![p] = NoOutput]
  /\ pre' = [pre EXCEPT ![p] = NoMap]
  /\ UNCHANGED <<ambient, outputs, errorHandler, sink, logLocals, counters>>

(***************************************************************************)
(* onError / OnError: set the error handler under the exclusive lock.      *)
(***************************************************************************)
\* Variant: a handler once set is not replaced.
OnErrorKeepFirst(p, h) ==
  /\ pc[p] = "idle" \/ InHandler(p, "hOnError")
  /\ LockFree
  /\ errorHandler' = IF errorHandler = NoHandler THEN h ELSE errorHandler
  /\ onErrorHist' = [last |-> h,
                     replaced |-> IF h # errorHandler THEN errorHandler
                                  ELSE onErrorHist.replaced]
  /\ UNCHANGED <<impl, defaultFormatter, regs, callVars, mu, outputs, sink, pc, logLocals,
                 outLocals, nlog>>

OnError(p, h) ==
  /\ pc[p] = "idle" \/ InHandler(p, "hOnError")
  /\ LockFree
  /\ errorHandler' = h
  /\ onErrorHist' = [last |-> h,
                     replaced |-> IF h # errorHandler THEN errorHandler
                                  ELSE onErrorHist.replaced]
  /\ UNCHANGED <<impl, defaultFormatter, regs, callVars, mu, outputs, sink, pc, logLocals,
                 outLocals, nlog>>

(***************************************************************************)
(* DefaultFormatter is an exported package variable: the program may assign *)
(* it at any time, without the router's lock.  A registration that reads it *)
(* at that moment gets the old or the new value.                            *)
(***************************************************************************)
SetDefaultFormatter(p, f) ==
  /\ pc[p] = "idle"
  /\ defaultFormatter' = f
  /\ UNCHANGED <<impl, regs, onErrorHist, callVars, mu, outputs, errorHandler, sink, pc,
                 logLocals, outLocals, counters>>

(***************************************************************************)
(* Log: one action per step of the dispatch loop.                          *)
(***************************************************************************)
\* l.mu.Lock() (defaultRouter) or l.mu.RLock() (router); start of the range.
LogLock(p, m) ==
  /\ pc[p] = "idle"
  /\ nlog < MaxLog
  /\ LogLockFree
  /\ mu' = LogLocked(p)
  /\ nlog' = nlog + 1
  /\ call' = [call EXCEPT ![p] = nlog + 1]
  /\ fields' = [fields EXCEPT ![p] = m]
  /\ given' = [given EXCEPT ![p] = m]
  /\ todo' = [todo EXCEPT ![p] = DOMAIN outputs]
  /\ trace' = [trace EXCEPT ![p] = <<>>]
  /\ pc' = [pc EXCEPT ![p] = "range"]
  /\ UNCHANGED <<ambient, outputs, errorHandler, sink, cur, buf, wr, outLocals>>

\* Variant: the test of o.Writer is missing.
SinkAlwaysPresent(o) == TRUE

\* if o.Writer != nil
SinkPresent(o) == o.Writer # NoWriter

\* Next iteration of "for _, o := range l.outputs", in any order, with the
\* tests "o.Writer != nil" and "o.Filter != nil".
LogRange(p) ==
  /\ pc[p] = "range"
  /\ IF todo[p] = {}
     THEN /\ pc' = [pc EXCEPT ![p] = "unlock"]
          /\ UNCHANGED <<todo, cur, trace>>
     ELSE \E id \in todo[p] :
            /\ todo' = [todo EXCEPT ![p] = @ \ {id}]
            /\ cur' = [cur EXCEPT ![p] = id]
            /\ IF ~SinkPresent(outputs[id])
               THEN /\ trace' = [trace EXCEPT ![p] =
                                   Append(@, Ev(id, "nosink", FALSE, NoErr, NoHandler))]
                    /\ pc' = pc
               ELSE /\ trace' = trace
                    /\ pc' = [pc EXCEPT ![p] =
                                IF outputs[id].Filter # NoFilter THEN "filter" ELSE "format"]
  /\ UNCHANGED <<ambient, mu, outputs, errorHandler, sink, fields, buf, wr, call,
                 given, outLocals, counters>>

\* Variant: the destination is not skipped when the filter does not match.
LogFilterIgnoresMatch(p) ==
  /\ pc[p] = "filter"
  /\ LET id == cur[p]
         r == Match(outputs[id].Filter, fields[p])
     IN IF r.panic
        THEN /\ trace' = [trace EXCEPT ![p] =
                            Append(@, Ev(id, "panic", FALSE, PanicCompare, NoHandler))]
             /\ pc' = [pc EXCEPT ![p] = "panic"]
        ELSE LET tr1 == Append(trace[p], Ev(id, "filter", r.match, r.err, NoHandler))
                 rep == IF r.err # NoErr THEN reportError(tr1, id, r.err)
                        ELSE [trace |-> tr1, panic |-> FALSE]
             IN /\ trace' = [trace EXCEPT ![p] = rep.trace]
                /\ pc' = [pc EXCEPT ![p] = AfterReport(rep, "format")]
  /\ UNCHANGED <<ambient, mu, outputs, errorHandler, sink, fields, todo, cur, buf, wr,
                 call, given, outLocals, counters>>

\* match, err := o.Filter.Match(fields); report an error; skip when !match.
LogFilter(p) ==
  /\ pc[p] = "filter"
  /\ LET id == cur[p]
         r == Match(outputs[id].Filter, fields[p])
     IN IF r.panic
        THEN /\ trace' = [trace EXCEPT ![p] =
                            Append(@, Ev(id, "panic", FALSE, PanicCompare, NoHandler))]
             /\ pc' = [pc EXCEPT ![p] = "panic"]
        ELSE LET tr1 == Append(trace[p], Ev(id, "filter", r.match, r.err, NoHandler))
                 rep == IF r.err # NoErr THEN reportError(tr1, id, r.err)
                        ELSE [trace |-> tr1, panic |-> FALSE]
             IN /\ trace' = [trace EXCEPT ![p] = rep.trace]
                /\ pc' = [pc EXCEPT ![p] =
                            AfterReport(rep, IF ~r.match THEN "range" ELSE "format")]
  /\ UNCHANGED <<ambient, mu, outputs, errorHandler, sink, fields, todo, cur, buf, wr,
                 call, given, outLocals, counters>>

\* b, err := o.Formatter.Format(fields); report an error and continue.
LogFormat(p) ==
  /\ pc[p] = "format"
  /\ \E r \in Format(outputs[cur[p]].Formatter, fields[p]) :
       LET id == cur[p] IN
       /\ fields' = [fields EXCEPT ![p] = r.fields]
       /\ IF r.panic
          THEN /\ trace' = [trace EXCEPT ![p] =
                              Append(@, Ev(id, "panic", FALSE, PanicConversion, NoHandler))]
               /\ pc' = [pc EXCEPT ![p] = "panic"]
               /\ buf' = buf
          ELSE LET tr1 == Append(trace[p], Ev(id, "format", r.err = NoErr, r.err, NoHandler))
                   rep == IF r.err # NoErr THEN reportError(tr1, id, r.err)
                          ELSE [trace |-> tr1, panic |-> FALSE]
               IN /\ trace' = [trace EXCEPT ![p] = rep.trace]
                  /\ buf' = [buf EXCEPT ![p] = r.b]
                  /\ pc' = [pc EXCEPT ![p] =
                              AfterReport(rep, IF r.err # NoErr THEN "range" ELSE "write")]
  /\ UNCHANGED <<ambient, mu, outputs, errorHandler, sink, todo, cur, wr, call,
                 given, outLocals, counters>>

\* writer := &writer{out: o.Writer}; writer.write(b)
LogWrite(p) ==
  /\ pc[p] = "write"
  /\ LET id == cur[p]
         w == outputs[id].Writer
     IN IF w = NoWriter
        THEN /\ trace' = [trace EXCEPT ![p] =
                            Append(@, Ev(id, "panic", FALSE, PanicNilWriter, NoHandler))]
             /\ pc' = [pc EXCEPT ![p] = "panic"]
             /\ UNCHANGED <<sink, wr>>
        ELSE \E ok \in WriteOutcomes(w) :
               /\ sink' = IF ok THEN [sink EXCEPT ![w] =
                                        Append(@, Chunk(call[p], id, "rec", buf[p]))]
                          ELSE sink
               /\ wr' = [wr EXCEPT ![p] = [out |-> w, err |-> IF ok THEN NoErr ELSE ErrWrite]]
               /\ trace' = [trace EXCEPT ![p] =
                              Append(@, Ev(id, "write", ok, IF ok THEN NoErr ELSE ErrWrite,
                                           NoHandler))]
               /\ pc' = [pc EXCEPT ![p] = "writenl"]
  /\ UNCHANGED <<ambient, mu, outputs, errorHandler, fields, todo, cur, buf, call,
                 given, outLocals, counters>>

\* Variant: writer.write does not test w.err, so the newline is written after
\* a failed write of the record.
LogWriteNLAfterError(p) ==
  /\ pc[p] = "writenl"
  /\ LET id == cur[p]
         w == wr[p].out
     IN \E ok \in WriteOutcomes(w) :
          LET err == IF wr[p].err # NoErr THEN wr[p].err
                     ELSE IF ok THEN NoErr ELSE ErrWrite
              tr1 == Append(trace[p], Ev(id, "nl", ok, IF ok THEN NoErr ELSE ErrWrite,
                                         NoHandler))
              rep == IF err # NoErr THEN reportError(tr1, id, err)
                     ELSE [trace |-> tr1, panic |-> FALSE]
          IN /\ sink' = IF ok THEN [sink EXCEPT ![w] =
                                      Append(@, Chunk(call[p], id, "nl", Newline))]
                        ELSE sink
             /\ trace' = [trace EXCEPT ![p] = rep.trace]
             /\ pc' = [pc EXCEPT ![p] = AfterReport(rep, "range")]
  /\ wr' = [wr EXCEPT ![p] = NoWr]
  /\ UNCHANGED <<ambient, mu, outputs, errorHandler, fields, todo, cur, buf, call,
                 given, outLocals, counters>>

\* writer.write([]byte{'\n'}); if writer.err != nil { report; continue }
LogWriteNL(p) ==
  /\ pc[p] = "writenl"
  /\ LET id == cur[p]
         w == wr[p].out
     IN \E ok \in (IF wr[p].err # NoErr THEN {FALSE} ELSE WriteOutcomes(w)) :
          LET err == IF wr[p].err # NoErr THEN wr[p].err
                     ELSE IF ok THEN NoErr ELSE ErrWrite
              tr1 == IF wr[p].err # NoErr THEN trace[p]
                     ELSE Append(trace[p], Ev(id, "nl", ok, err, NoHandler))
              rep == IF err # NoErr THEN reportError(tr1, id, err)
                     ELSE [trace |-> tr1, panic |-> FALSE]
          IN /\ sink' = IF ok THEN [sink EXCEPT ![w] =
                                      Append(@, Chunk(call[p], id, "nl", Newline))]
                        ELSE sink
             /\ trace' = [trace EXCEPT ![p] = rep.trace]
             /\ pc' = [pc EXCEPT ![p] = AfterReport(rep, "range")]
  /\ wr' = [wr EXCEPT ![p] = NoWr]
  /\ UNCHANGED <<ambient, mu, outputs, errorHandler, fields, todo, cur, buf, call,
                 given, outLocals, counters>>

ClearLog(p) ==
  /\ fields' = [fields EXCEPT ![p] = EmptyFields]
  /\ todo' = [todo EXCEPT ![p] = {}]
  /\ cur' = [cur EXCEPT ![p] = ""]
  /\ buf' = [buf EXCEPT ![p] = Nil]
  /\ wr' = [wr EXCEPT ![p] = NoWr]
  /\ trace' = [trace EXCEPT ![p] = <<>>]
  /\ call' = [call EXCEPT ![p] = 0]
  /\ given' = [given EXCEPT ![p] = EmptyFields]

\* The range is over: the deferred Unlock/RUnlock runs and Log returns.
LogUnlock(p) ==
  /\ pc[p] = "unlock"
  /\ mu' = Unlock(p)
  /\ pc' = [pc EXCEPT ![p] = "idle"]
  /\ ClearLog(p)
  /\ UNCHANGED <<ambient, outputs, errorHandler, sink, outLocals, counters>>

\* A panic inside Log: the deferred Unlock/RUnlock runs and the panic
\* reaches the caller of Log.
LogPanic(p) ==
  /\ pc[p] = "panic"
  /\ mu' = Unlock(p)
  /\ pc' = [pc EXCEPT ![p] = "idle"]
  /\ ClearLog(p)
  /\ UNCHANGED <<ambient, outputs, errorHandler, sink, outLocals, counters>>

Next ==
  \/ \E p \in Procs, o \in OutputArgs : OutputLock(p, o)
  \/ \E p \in Procs : OutputFilter(p)
  \/ \E p \in Procs : OutputUnlock(p)
  \/ \E p \in Procs, h \in Handlers : OnError(p, h)
  \/ \E p \in Procs, m \in Messages : LogLock(p, m)
  \/ \E p \in Procs : LogRange(p)
  \/ \E p \in Procs : LogFilter(p)
  \/ \E p \in Procs : LogFormat(p)
  \/ \E p \in Procs : LogWrite(p)
  \/ \E p \in Procs : LogWriteNL(p)
  \/ \E p \in Procs : LogUnlock(p)
  \/ \E p \in Procs : LogPanic(p)

Spec == Init /\ [][Next]_vars

\* The registrations the model of the router returned by NewRouter draws from.
RouterOutputArgs ==
  { OutputArg("a", "w1", NoFormatter, NoFilter),
    OutputArg("a", NoWriter, NoFormatter, NoFilter),
    OutputArg("b", "w2", NoFormatter, NoFilter),
    OutputArg("b", "w1", NoFormatter, IsUser) }

NextRouter ==
  \/ \E p \in Procs, o \in RouterOutputArgs : OutputLock(p, o)
  \/ \E p \in Procs : OutputFilter(p)
  \/ \E p \in Procs : OutputUnlock(p)
  \/ \E p \in Procs, h \in Handlers : OnError(p, h)
  \/ \E p \in Procs, m \in Messages : LogLock(p, m)
  \/ \E p \in Procs : LogRange(p)
  \/ \E p \in Procs : LogFilter(p)
  \/ \E p \in Procs : LogFormat(p)
  \/ \E p \in Procs : LogWrite(p)
  \/ \E p \in Procs : LogWriteNL(p)
  \/ \E p \in Procs : LogUnlock(p)
  \/ \E p \in Procs : LogPanic(p)

SpecRouter == InitRouter /\ [][NextRouter]_vars

(***************************************************************************)
(* The default router with a process-wide default formatter that changes    *)
(* and with two error handlers.                                             *)
(***************************************************************************)
AltFormatter == CustomFormatter("alt", NoErr)

DefaultFormatters == {JSONFormatter, AltFormatter}

ConfigHandlers == {"h1", "h2"}

ConfigOutputArgs ==
  { OutputArg("a", "w1", NoFormatter, NoFilter),
    OutputArg("a", "w1", FailingFormatter, NoFilter),
    OutputArg("b", "w2", NoFormatter, NoFilter),
    OutputArg("b", "w1", NoFormatter, CustomFilter(FALSE, ErrFilter)) }

NextConfig ==
  \/ \E p \in Procs, o \in ConfigOutputArgs : OutputLock(p, o)
  \/ \E p \in Procs : OutputFilter(p)
  \/ \E p \in Procs : OutputUnlock(p)
  \/ \E p \in Procs, h \in ConfigHandlers : OnError(p, h)
  \/ \E p \in Procs, f \in DefaultFormatters : SetDefaultFormatter(p, f)
  \/ \E p \in Procs, m \in Messages : LogLock(p, m)
  \/ \E p \in Procs : LogRange(p)
  \/ \E p \in Procs : LogFilter(p)
  \/ \E p \in Procs : LogFormat(p)
  \/ \E p \in Procs : LogWrite(p)
  \/ \E p \in Procs : LogWriteNL(p)
  \/ \E p \in Procs : LogUnlock(p)
  \/ \E p \in Procs : LogPanic(p)

SpecConfig == Init /\ [][NextConfig]_vars

(***************************************************************************)
(* The default router with error handlers that call Register or OnError    *)
(* from inside the callback.                                               *)
(***************************************************************************)
ReentrantOutputArgs ==
  { OutputArg("a", "w1", NoFormatter, NoFilter),
    OutputArg("a", "w2", NoFormatter, NoFilter),
    OutputArg("a", "w1", FailingFormatter, NoFilter),
    OutputArg("b", "w1", NoFormatter, NoFilter),
    OutputArg("b", "w1", NoFormatter, CustomFilter(FALSE, ErrFilter)) }

NextReentrant ==
  \/ \E p \in Procs, o \in ReentrantOutputArgs : OutputLock(p, o)
  \/ \E p \in Procs : OutputFilter(p)
  \/ \E p \in Procs : OutputUnlock(p)
  \/ \E p \in Procs, h \in Handlers \cup ReentrantHandlers : OnError(p, h)
  \/ \E p \in Procs, m \in Messages : LogLock(p, m)
  \/ \E p \in Procs : LogRange(p)
  \/ \E p \in Procs : LogFilter(p)
  \/ \E p \in Procs : LogFormat(p)
  \/ \E p \in Procs : LogWrite(p)
  \/ \E p \in Procs : LogWriteNL(p)
  \/ \E p \in Procs : LogUnlock(p)
  \/ \E p \in Procs : LogPanic(p)

SpecReentrant == Init /\ [][NextReentrant]_vars

(***************************************************************************)
(* Logger.Log: the logger adds its fields to the message and hands it to   *)
(* its router; the router here is the routerSpy of the tests, which keeps  *)
(* what it receives.  Strings made from a time or a caller position are    *)
(* modelled by what they are made from.                                    *)
(***************************************************************************)
ShortFileLine == 1

LongFileLine == 2

RFC3339 == "2006-01-02T15:04:05Z07:00"

LoggerConfig(name, timeFormat, utc, fileLine, sortFields) ==
  [Name |-> name, TimeFormat |-> timeFormat, UTC |-> utc, FileLine |-> fileLine,
   SortFields |-> sortFields]

\* The loggers of TestLogger, and two that set every option.
Loggers ==
  { LoggerConfig("", RFC3339, FALSE, 0, FALSE),
    LoggerConfig("", RFC3339, TRUE, 0, FALSE),
    LoggerConfig("duck", "", FALSE, 0, FALSE),
    LoggerConfig("", "", FALSE, ShortFileLine, FALSE),
    LoggerConfig("", "", FALSE, LongFileLine, FALSE),
    LoggerConfig("", "", FALSE, 0, TRUE),
    LoggerConfig("monkey", RFC3339, FALSE, ShortFileLine, TRUE),
    LoggerConfig("logger", RFC3339, TRUE, LongFileLine, FALSE) }

\* The Fields variables of the callers: nil, and maps with and without the
\* keys the logger adds.
LoggerMessages ==
  { NilFields,
    FieldsRef(EmptyFields),
    FieldsRef([level |-> Str("info")]),
    FieldsRef([time |-> Str("now1")]),
    FieldsRef([logger |-> Str("elephant")]),
    FieldsRef([file |-> Str("line1")]),
    FieldsRef([_sort |-> Bool(TRUE), level |-> Str("info")]),
    FieldsRef([time |-> Nil, logger |-> Str("elephant"), file |-> Str("line2"),
               _sort |-> Bool(FALSE)]) }

\* Where Log is called from, as runtime.Caller reports it: the path split at
\* '/', and the line.
CallSites ==
  { [file |-> <<"", "home", "log", "log_test.go">>, line |-> 106],
    [file |-> <<"", "main.go">>, line |-> 7] }

\* t.Format(layout), for t in UTC or in the local zone.
TimeString(t, layout, utc) == [t |-> "str", time |-> t, layout |-> layout, utc |-> utc]

\* fmt.Sprintf("%s:%d", file, line)
FileString(file, line) == [t |-> "str", file |-> file, line |-> line]

\* The loop over file from its last byte down to index 1: the text after
\* the last '/' that is not the first byte.
ShortFile(file) ==
  IF Len(file) >= 3 \/ (Len(file) = 2 /\ file[1] # "")
  THEN <<file[Len(file)]>>
  ELSE file

Put(f, k, v) == [x \in DOMAIN f \cup {k} |-> IF x = k THEN v ELSE f[x]]

\* Variant: the time is stamped over a "time" field of the caller.
addTimeOverrides(config, f, t) ==
  IF config.TimeFormat = "" THEN f
  ELSE Put(f, FieldTime, TimeString(t, config.TimeFormat, config.UTC))

addTime(config, f, t) ==
  IF FieldTime \in DOMAIN f \/ config.TimeFormat = "" THEN f
  ELSE Put(f, FieldTime, TimeString(t, config.TimeFormat, config.UTC))

addLogger(config, f) ==
  IF FieldLogger \in DOMAIN f \/ config.Name = "" THEN f
  ELSE Put(f, FieldLogger, Str(config.Name))

addFile(config, f, site) ==
  IF FieldFile \in DOMAIN f \/ config.FileLine \notin {ShortFileLine, LongFileLine} THEN f
  ELSE Put(f, FieldFile,
           FileString(IF config.FileLine = ShortFileLine THEN ShortFile(site.file)
                      ELSE site.file, site.line))

sortFields(config, f) ==
  IF FieldSort \in DOMAIN f THEN f
  ELSE Put(f, FieldSort, Bool(config.SortFields))

\* The map as the four calls of logger.Log leave it.
Enriched(config, f, t, site) ==
  sortFields(config, addFile(config, addLogger(config, addTime(config, f, t)), site))

\* Variant: the logger works on a copy, the caller's map is left alone.
LoggerLogOnCopy(config, site) ==
  /\ Len(spy) < MaxLoggerCalls
  /\ LET got == Enriched(config, callerFields.m, now, site)
     IN spy' = Append(spy, [config |-> config, site |-> site, at |-> now,
                            given |-> callerFields, got |-> got])
  /\ now' = now + 1
  /\ UNCHANGED <<routerVars, op, result, callerFields>>

\* logger.Log(fields): a nil fields is replaced by a new map local to Log;
\* otherwise the four calls write into the caller's map; r.Log(fields).
LoggerLog(config, site) ==
  /\ Len(spy) < MaxLoggerCalls
  /\ LET got == Enriched(config, callerFields.m, now, site)
     IN /\ spy' = Append(spy, [config |-> config, site |-> site, at |-> now,
                               given |-> callerFields, got |-> got])
        /\ callerFields' = IF callerFields.isNil THEN callerFields ELSE FieldsRef(got)
  /\ now' = now + 1
  /\ UNCHANGED <<routerVars, op, result>>

InitLogger ==
  /\ impl = "defaultRouter"
  /\ InitRouterVars
  /\ op = NoOp
  /\ result = NoResult
  /\ callerFields \in LoggerMessages
  /\ now = 1
  /\ spy = <<>>

NextLogger == \E config \in Loggers, site \in CallSites : LoggerLog(config, site)

SpecLogger == InitLogger /\ [][NextLogger]_vars

(***************************************************************************)
(* Direct calls of the filters and of Fields.Value, as the tests make      *)
(* them: one call per behaviour, on inputs drawn from the sets below.      *)
(***************************************************************************)
ErrOther == "other failure"

\* The mock filters: each returns a fixed (match, err).
Mocks ==
  { CustomFilter(TRUE, NoErr), CustomFilter(FALSE, NoErr),
    CustomFilter(FALSE, ErrFilter), CustomFilter(TRUE, ErrOther) }

FilterLists == UNION {[1..k -> Mocks] : k \in 0..MaxFilters}

\* Path strings, "." being the separator.
PathStrings ==
  { <<>>, <<"a">>, <<"a", ".">>, <<".", "a">>, <<"a", ".", ".", "b">>,
    <<"a", ".", "b">>, <<"user", ".", "id">>, <<"user">>, <<"b">> }

EqValues ==
  { Nil, Int(1), Int(2), Str("x"), FieldsV([id |-> Int(1)]), FieldsV([b |-> Int(1)]),
    Slice(<<Int(1)>>) }

CallMessages ==
  { EmptyFields,
    [a |-> Nil],
    [a |-> Int(1)],
    [a |-> Str("x"), b |-> Int(2)],
    [a |-> FieldsV([b |-> Int(1)])],
    [a |-> FieldsV([b |-> Nil])],
    [a |-> Slice(<<Int(1)>>)],
    [user |-> FieldsV([id |-> Int(1)])],
    [user |-> FieldsV([name |-> Str("x")])],
    "" :> Int(1),
    "" :> FieldsV([a |-> Int(1)]),
    [a |-> FieldsV("" :> Int(1))],
    [a |-> FieldsV("" :> FieldsV([b |-> Int(1)]))] }

CompositeFilters ==
  {And(fs) : fs \in FilterLists} \cup {Or(fs) : fs \in FilterLists}
    \cup {Not(f) : f \in Mocks} \cup {Not(Not(f)) : f \in Mocks}
    \cup {And(<<Or(<<f, g>>), Not(g)>>) : f, g \in Mocks}

FieldFilters ==
  {FieldExist(ps) : ps \in PathStrings}
    \cup {Eq(ps, v) : ps \in PathStrings, v \in EqValues}

\* Messages given to JSONFormatter.Format.  A nil Fields reads as an empty map.
FormatMessages ==
  { EmptyFields,
    [_ignoreit |-> Str("abc")],
    [_sort |-> Bool(TRUE)],
    [_sort |-> Bool(FALSE), _ignoreit |-> Int(1)],
    [_sort |-> Str("yes")],
    [a |-> Int(1), _sort |-> Nil],
    [a |-> Int(1), b |-> Str("x"), _sort |-> Bool(TRUE)],
    [b |-> Str("x"), a |-> Int(1)],
    [a |-> Int(1), b |-> Str("x"), _sort |-> Bool(FALSE)],
    [a |-> Int(1), _ignoreit |-> Str("abc"), _sort |-> Bool(TRUE)],
    "" :> Int(1) @@ [a |-> Int(2)],
    [a |-> Chan, _sort |-> Bool(TRUE)],
    [level |-> Str("info"), user |-> FieldsV([id |-> Int(1), a |-> Int(2)]),
     _sort |-> Bool(TRUE)],
    [level |-> Str("info"), user |-> FieldsV([id |-> Int(1), a |-> Int(2)])],
    [level |-> Str("info"),
     user |-> FieldsV([id |-> Int(1), a |-> Int(2), _sort |-> Bool(FALSE)]),
     _sort |-> Bool(TRUE)],
    [level |-> Str("info"),
     user |-> FieldsV([id |-> Int(1), a |-> Int(2), _sort |-> Bool(TRUE)])],
    [user |-> FieldsV([id |-> Int(1), _ignoreit |-> Int(2)]), _sort |-> Bool(TRUE)],
    [user |-> FieldsV([b |-> FieldsV([id |-> Int(1), a |-> Int(2)]), a |-> Int(1)]),
     _sort |-> Bool(TRUE)],
    [a |-> Slice(<<FieldsV([id |-> Int(1), a |-> Int(2)]), Int(3)>>),
     _sort |-> Bool(TRUE)] }

FormatCall(formatter, m, isNil) ==
  [kind |-> "format", formatter |-> formatter, fields |-> m, isNil |-> isNil]

MatchCall(filter, m) == [kind |-> "match", filter |-> filter, fields |-> m]

ValueCall(m, path) == [kind |-> "value", fields |-> m, path |-> path]

Calls ==
  {MatchCall(f, EmptyFields) : f \in CompositeFilters}
    \cup {MatchCall(f, m) : f \in FieldFilters, m \in CallMessages}
    \cup {ValueCall(m, Split(ps)) : m \in CallMessages, ps \in PathStrings}
    \cup {ValueCall(m, <<>>) : m \in CallMessages}
    \cup {FormatCall(JSONFormatter, m, FALSE) : m \in FormatMessages}
    \cup {FormatCall(JSONFormatter, EmptyFields, TRUE)}

InitCall ==
  /\ impl = "defaultRouter"
  /\ InitRouterVars
  /\ InitLoggerVars
  /\ op \in Calls
  /\ result = NoResult

\* filter.Match(fields)
CallMatch ==
  /\ op.kind = "match"
  /\ result = NoResult
  /\ result' = [kind |-> "match", r |-> Match(op.filter, op.fields), fields |-> op.fields]
  /\ UNCHANGED <<routerVars, loggerVars, op>>

\* fields.Value(path)
CallValue ==
  /\ op.kind = "value"
  /\ result = NoResult
  /\ result' = [kind |-> "value", r |-> Value(op.fields, op.path), fields |-> op.fields]
  /\ UNCHANGED <<routerVars, loggerVars, op>>

\* JSONFormatter.Format(fields), as the tests call it.
CallFormat ==
  /\ op.kind = "format"
  /\ result = NoResult
  /\ \E r \in Format(op.formatter, op.fields) :
       result' = [kind |-> "format", r |-> r, fields |-> op.fields]
  /\ UNCHANGED <<routerVars, loggerVars, op>>

NextCall == CallMatch \/ CallValue \/ CallFormat

SpecCall == InitCall /\ [][NextCall]_vars

(***************************************************************************)
(* What the properties talk about.                                         *)
(***************************************************************************)
InLog(p) ==
  pc[p] \in {"range", "filter", "format", "write", "writenl", "handler", "unlock", "panic"}

InOutput(p) == pc[p] \in {"setFormatter", "registered"}

\* The ids whose iteration of the range loop is over in p's Log call.
Handled(p) ==
  IF pc[p] \in {"range", "unlock"} THEN DOMAIN outputs \ todo[p] ELSE {}

\* The positions of sink w that hold a chunk of part "part" written by call c for id.
Chunks(w, c, id, part) ==
  {i \in 1..Len(sink[w]) :
     sink[w][i].call = c /\ sink[w][i].id = id /\ sink[w][i].part = part}

\* p's Log call has written a record for destination id.
Delivered(p, id) == \E w \in Writers : Chunks(w, call[p], id, "rec") # {}

\* The events of p's Log call for destination id.
EventsOf(p, id) == {i \in 1..Len(trace[p]) : trace[p][i].id = id}

Failed(p, id) ==
  \E i \in EventsOf(p, id) :
    trace[p][i].ev \in {"format", "write", "nl"} /\ trace[p][i].err # NoErr

Reports(p, id) == {i \in EventsOf(p, id) : trace[p][i].ev = "report"}

\* A destination that is enabled, unfiltered and whose formatter and writer work.
Plain(o) ==
  /\ o.Writer \in Writers \ FailingWriters
  /\ o.Filter = NoFilter
  /\ o.Formatter = JSONFormatter

(***************************************************************************)
(* C1.  For every message and every registered destination, one Log call   *)
(* writes a record to the destination's sink if and only if the sink is    *)
(* present and the filter is absent or returns match=true with no error;   *)
(* in every other case nothing is written.  (The "if" direction is read    *)
(* for destinations whose formatter and writer do not fail.)               *)
(***************************************************************************)
C1_WriteIffSinkAndFilterPass ==
  \A p \in Procs : \A id \in Handled(p) :
    LET o == outputs[id]
        r == IF o.Filter = NoFilter THEN MatchResult(TRUE, NoErr, FALSE)
             ELSE Match(o.Filter, fields[p])
        pass == /\ o.Writer # NoWriter
                /\ (o.Filter = NoFilter \/ (r.match /\ r.err = NoErr /\ ~r.panic))
    IN /\ Delivered(p, id) => pass
       /\ (pass /\ o.Formatter = JSONFormatter /\ o.Writer \notin FailingWriters)
            => Delivered(p, id)

(***************************************************************************)
(* C2.  On the default router the bytes of two records are never           *)
(* interleaved on a sink: every record chunk is directly followed by the   *)
(* line terminator of the same call (or that call is about to write it),   *)
(* every terminator directly follows its record, and a Log call that       *)
(* returns has written exactly one record and one terminator to every      *)
(* unfiltered working destination.                                         *)
(***************************************************************************)
C2_NoInterleaving ==
  /\ \A w \in Writers : \A i \in 1..Len(sink[w]) :
       LET c == sink[w][i] IN
       /\ c.part = "rec" =>
            IF i < Len(sink[w])
            THEN sink[w][i + 1] = Chunk(c.call, c.id, "nl", Newline)
            ELSE \E p \in Procs : pc[p] = "writenl" /\ call[p] = c.call /\ cur[p] = c.id
       /\ c.part = "nl" =>
            /\ i > 1
            /\ sink[w][i - 1].part = "rec"
            /\ sink[w][i - 1].call = c.call
            /\ sink[w][i - 1].id = c.id
  /\ \A p \in Procs : pc[p] = "unlock" =>
       \A id \in DOMAIN outputs : Plain(outputs[id]) =>
         \A w \in Writers :
           LET n == IF w = outputs[id].Writer THEN 1 ELSE 0 IN
           /\ Cardinality(Chunks(w, call[p], id, "rec")) = n
           /\ Cardinality(Chunks(w, call[p], id, "nl")) = n

\* Two Log calls have delivered to the same sink, the second is returning.
C2_Witness ==
  \E p \in Procs, id \in DOMAIN outputs :
    /\ pc[p] = "unlock"
    /\ call[p] = 2
    /\ Plain(outputs[id])
    /\ Chunks(outputs[id].Writer, 1, id, "nl") # {}
    /\ Chunks(outputs[id].Writer, 2, id, "nl") # {}

(***************************************************************************)
(* C3.  The router returned by NewRouter serializes access to the Writer:  *)
(* the record write and the newline write of one Log call are never        *)
(* separated by a write of another Log call on that writer.                *)
(***************************************************************************)
C3_RouterSerializesWriter ==
  \A w \in Writers : \A i \in 1..Len(sink[w]) :
    (sink[w][i].part = "rec" /\ i < Len(sink[w])) =>
      (sink[w][i + 1].call = sink[w][i].call /\ sink[w][i + 1].part = "nl")

(***************************************************************************)
(* C4.  A format or write failure at one destination never prevents any    *)
(* other enabled, matching destination from receiving its record in the    *)
(* same Log call; with an error handler set it is invoked exactly once per *)
(* failed destination.                                                     *)
(***************************************************************************)
C4_FailureIsolation ==
  \A p \in Procs : pc[p] \in {"unlock", "panic"} =>
    /\ (\E j \in DOMAIN outputs : Failed(p, j)) =>
         \A id \in DOMAIN outputs : Plain(outputs[id]) => Delivered(p, id)
    /\ errorHandler # NoHandler =>
         \A id \in DOMAIN outputs : Failed(p, id) => Cardinality(Reports(p, id)) = 1

(***************************************************************************)
(* C5.  Log never raises to its caller: no Log call ends in a panic.       *)
(***************************************************************************)
C5_LogNeverPanics == \A p \in Procs : pc[p] # "panic"

(***************************************************************************)
(* C6.  When no error handler has been registered, a filter, format or     *)
(* write failure during Log is silently dropped: nothing is called and     *)
(* the call goes on.                                                       *)
(***************************************************************************)
C6_NoHandlerSilentDrop ==
  errorHandler = NoHandler =>
    \A p \in Procs : \A i \in 1..Len(trace[p]) :
      /\ trace[p][i].ev # "report"
      /\ trace[p][i].err # PanicNilHandler

(***************************************************************************)
(* C7.  With an error handler set, it is invoked for a destination's       *)
(* filter exactly when the filter's Match returns an error; a filter that  *)
(* returns false without error makes Log skip the destination with no      *)
(* handler invocation.                                                     *)
(***************************************************************************)
C7_FilterErrorReported ==
  errorHandler # NoHandler =>
    \A p \in Procs : \A i \in 1..Len(trace[p]) :
      LET e == trace[p][i]
          o == outputs[e.id]
      IN /\ e.ev = "filter" =>
              /\ e.err = Match(o.Filter, fields[p]).err
              /\ e.err # NoErr =>
                   /\ i < Len(trace[p])
                   /\ trace[p][i + 1] = Ev(e.id, "report", TRUE, e.err, errorHandler)
              /\ e.err = NoErr =>
                   (i < Len(trace[p]) => trace[p][i + 1].ev # "report")
              /\ (e.err = NoErr /\ ~e.ok) =>
                   \A j \in EventsOf(p, e.id) : j = i
         /\ (e.ev = "report" /\ e.err = ErrFilter) =>
              /\ i > 1
              /\ trace[p][i - 1].ev = "filter"
              /\ trace[p][i - 1].id = e.id
              /\ trace[p][i - 1].err = e.err

\* The handler has been called for a filter error.
C7_Witness ==
  \E p \in Procs : \E i \in 1..Len(trace[p]) :
    /\ trace[p][i].ev = "report"
    /\ trace[p][i].err = ErrFilter
    /\ trace[p][i].h \in Handlers

(***************************************************************************)
(* C8.  Register is an upsert keyed by id: when the registration is done   *)
(* the entry of id holds the sink, formatter (the default one when absent) *)
(* and filter of this call, the registry has grown by one entry exactly    *)
(* when id was new, and the entries of the other ids are unchanged.        *)
(***************************************************************************)
C8_RegisterIsUpsert ==
  \A p \in Procs : pc[p] = "registered" =>
    LET o == arg[p] IN
    /\ o.Id \in DOMAIN outputs
    /\ outputs[o.Id].Writer = o.Writer
    /\ outputs[o.Id].Formatter =
         (IF o.Formatter = NoFormatter THEN JSONFormatter ELSE o.Formatter)
    /\ outputs[o.Id].Filter = o.Filter
    /\ DOMAIN outputs = DOMAIN pre[p] \cup {o.Id}
    /\ Cardinality(DOMAIN outputs) =
         Cardinality(DOMAIN pre[p]) + (IF o.Id \in DOMAIN pre[p] THEN 0 ELSE 1)
    /\ \A j \in DOMAIN pre[p] \ {o.Id} : outputs[j] = pre[p][j]

\* An id that was registered is registered again with another sink, another
\* formatter and another filter, next to another destination.
C8_Witness ==
  \E p \in Procs :
    /\ pc[p] = "registered"
    /\ arg[p].Id \in DOMAIN pre[p]
    /\ DOMAIN pre[p] # {arg[p].Id}
    /\ pre[p][arg[p].Id].Writer # outputs[arg[p].Id].Writer
    /\ pre[p][arg[p].Id].Formatter # outputs[arg[p].Id].Formatter
    /\ pre[p][arg[p].Id].Filter # outputs[arg[p].Id].Filter

(***************************************************************************)
(* C9.  A destination registered with an absent sink is skipped by every   *)
(* Log call (nothing is written for it, nothing is evaluated, no panic     *)
(* comes from it) while the working destinations next to it receive their  *)
(* records; a destination registered with a live sink receives its record. *)
(***************************************************************************)
C9_DisabledSinkSkipped ==
  \A p \in Procs :
    /\ \A id \in Handled(p) :
         /\ outputs[id].Writer = NoWriter =>
              /\ ~Delivered(p, id)
              /\ \A i \in EventsOf(p, id) : trace[p][i].ev = "nosink"
         /\ Plain(outputs[id]) => Delivered(p, id)
    /\ pc[p] \in {"filter", "format", "write", "writenl", "panic"} =>
         outputs[cur[p]].Writer # NoWriter

\* Destination a received a record in an earlier call, now has no sink and
\* was skipped by the call that is returning, which delivered to b.
C9_Witness ==
  \E p \in Procs :
    /\ pc[p] = "unlock"
    /\ DOMAIN outputs = {"a", "b"}
    /\ outputs["a"].Writer = NoWriter
    /\ \E w \in Writers : Chunks(w, 1, "a", "nl") # {}
    /\ call[p] = 2
    /\ ~Delivered(p, "a")
    /\ Delivered(p, "b")

(***************************************************************************)
(* C10.  Registration is mutually exclusive with other registrations and   *)
(* with the registry reads of Log: while a registration is between its     *)
(* lock and unlock no other goroutine is inside Log or inside a            *)
(* registration, so Log never reads an entry that is partly updated, and   *)
(* the writer a Log call writes to is the one in the entry.                *)
(***************************************************************************)
C10_RegisterExcludesLog ==
  /\ \A p, q \in Procs : (p # q /\ InOutput(p)) => (~InOutput(q) /\ ~InLog(q))
  /\ \A p \in Procs : pc[p] = "writenl" => wr[p].out = outputs[cur[p]].Writer

\* A registration has replaced the sink of an entry in place and not yet its
\* formatter and filter, which both differ from the new ones.
C10_Witness ==
  \E p \in Procs :
    /\ pc[p] = "setFormatter"
    /\ found[p]
    /\ pre[p][arg[p].Id].Writer # arg[p].Writer
    /\ outputs[arg[p].Id].Writer = arg[p].Writer
    /\ outputs[arg[p].Id].Formatter # FormatterOrDefault(arg[p].Formatter)
    /\ outputs[arg[p].Id].Filter # arg[p].Filter

(***************************************************************************)
(* C11.  A destination registered without a formatter holds the default    *)
(* formatter that was in force when it was registered: its entry and the   *)
(* bytes Log formats for it come from that formatter, whatever the         *)
(* process-wide default has become since.                                  *)
(***************************************************************************)
C11_DefaultFixedAtRegistration ==
  /\ DOMAIN regs = DOMAIN outputs
  /\ \A id \in DOMAIN regs :
       regs[id].Formatter = NoFormatter => outputs[id].Formatter = regs[id].Default
  /\ \A p \in Procs :
       (pc[p] = "write" /\ regs[cur[p]].Formatter = NoFormatter) =>
         buf[p] \in {r.b : r \in Format(regs[cur[p]].Default, fields[p])}

\* Log has formatted a record for a destination registered without formatter
\* while the default was the alternative one; the default is JSON again.
C11_Witness ==
  \E p \in Procs :
    /\ pc[p] = "write"
    /\ regs[cur[p]].Formatter = NoFormatter
    /\ regs[cur[p]].Default = AltFormatter
    /\ defaultFormatter = JSONFormatter
    /\ buf[p] = Str("alt")

(***************************************************************************)
(* C12.  No operation removes a destination: no step takes an id out of    *)
(* the registry, and an entry with an absent sink stays as it is until its *)
(* id is registered again; Log skips it and leaves it there.               *)
(***************************************************************************)
C12_NoRemoval ==
  [][\A id \in DOMAIN outputs :
       /\ id \in DOMAIN outputs'
       /\ (outputs[id].Writer = NoWriter
             /\ \A p \in Procs : ~(InOutput(p)' /\ arg'[p].Id = id))
            => outputs'[id] = outputs[id]]_vars

\* The second Log call has skipped an entry whose sink is absent; the entry
\* is in the registry.
C12_Witness ==
  \E p \in Procs : \E i \in 1..Len(trace[p]) :
    /\ pc[p] = "unlock"
    /\ call[p] = 2
    /\ trace[p][i].ev = "nosink"
    /\ trace[p][i].id \in DOMAIN outputs
    /\ outputs[trace[p][i].id].Writer = NoWriter

(***************************************************************************)
(* C13.  The router keeps a single error handler: the handler in force is  *)
(* the argument of the last OnError call, every failure Log reports goes   *)
(* to that handler and to no earlier one, and an OnError call leaves the   *)
(* registry unchanged.                                                     *)
(***************************************************************************)
C13_SingleHandler ==
  [][/\ onErrorHist' # onErrorHist => outputs' = outputs
     /\ errorHandler' = onErrorHist'.last
     /\ \A p \in Procs : \A i \in 1..Len(trace'[p]) :
          trace'[p][i].ev = "report" => trace'[p][i].h = onErrorHist'.last]_vars

\* After OnError(h1) and then OnError(h2) a failure has been reported to h2.
C13_Witness ==
  /\ onErrorHist = [last |-> "h2", replaced |-> "h1"]
  /\ \E p \in Procs : \E i \in 1..Len(trace[p]) :
       trace[p][i].ev = "report" /\ trace[p][i].h = "h2"

(***************************************************************************)
(* What the properties of the direct calls talk about.                     *)
(***************************************************************************)
\* The messages inside message f, f included.
RECURSIVE SubMessages(_)
SubMessages(f) ==
  {f} \cup UNION {SubMessages(f[k].m) : k \in {x \in DOMAIN f : f[x].t = "fields"}}

\* The walks of path through f: the message reached before each component.
Chains(f, path) ==
  {ms \in [1..Len(path) -> SubMessages(f)] :
     /\ ms[1] = f
     /\ \A i \in 1..(Len(path) - 1) :
          /\ path[i] \in DOMAIN ms[i]
          /\ ms[i][path[i]].t = "fields"
          /\ ms[i + 1] = ms[i][path[i]].m
     /\ path[Len(path)] \in DOMAIN ms[Len(path)]}

\* Every component but the last names a nested message and the last one a
\* key of the message reached.
Resolves(f, path) == path # <<>> /\ Chains(f, path) # {}

Resolved(f, path) ==
  LET ms == CHOOSE x \in Chains(f, path) : TRUE IN ms[Len(path)][path[Len(path)]]

Least(S) == CHOOSE i \in S : \A j \in S : i <= j

MatchReturned(kind) ==
  result.kind = "match" /\ op.filter.k = kind /\ ~result.r.panic

(***************************************************************************)
(* C14.  And(f1..fn).Match calls its sub-filters left to right and stops   *)
(* at the first that returns false or an error: the sub-filters called are *)
(* that prefix, the result is true only when all returned true without     *)
(* error, the error of the sub-filter that stopped the loop is the error   *)
(* returned, and And() matches true.                                       *)
(***************************************************************************)
C14_AndShortCircuit ==
  MatchReturned("and") =>
    LET fs == op.filter.filters
        sub(i) == Match(fs[i], op.fields)
        stop == {i \in 1..Len(fs) : ~sub(i).match \/ sub(i).err # NoErr}
        k == IF stop = {} THEN Len(fs) ELSE Least(stop)
        r == result.r
    IN /\ r.evaluated = SubSeq(fs, 1, k)
       /\ r.match = (stop = {})
       /\ r.err = (IF stop = {} THEN NoErr ELSE sub(k).err)
       /\ fs = <<>> => (r.match /\ r.err = NoErr)

\* And(A, B) with A returning false has been called and B was not.
C14_Witness ==
  /\ MatchReturned("and")
  /\ op.filter.filters = <<CustomFilter(FALSE, NoErr), CustomFilter(TRUE, NoErr)>>
  /\ result.r.evaluated = <<CustomFilter(FALSE, NoErr)>>
  /\ ~result.r.match

(***************************************************************************)
(* C15.  Or(f1..fn).Match calls its sub-filters left to right and stops at *)
(* the first that returns true or an error: the sub-filters called are     *)
(* that prefix, the result is true iff one of them returned true without   *)
(* error, the error of the sub-filter that stopped the loop is the error   *)
(* returned, and Or() matches false.                                       *)
(***************************************************************************)
C15_OrShortCircuit ==
  MatchReturned("or") =>
    LET fs == op.filter.filters
        sub(i) == Match(fs[i], op.fields)
        stop == {i \in 1..Len(fs) : sub(i).match \/ sub(i).err # NoErr}
        k == IF stop = {} THEN Len(fs) ELSE Least(stop)
        r == result.r
    IN /\ r.evaluated = SubSeq(fs, 1, k)
       /\ r.match = (\E i \in 1..k : sub(i).match /\ sub(i).err = NoErr)
       /\ r.err = (IF stop = {} THEN NoErr ELSE sub(k).err)
       /\ fs = <<>> => (~r.match /\ r.err = NoErr)

\* Or(A, B) with A returning true has been called and B was not.
C15_Witness ==
  /\ MatchReturned("or")
  /\ op.filter.filters = <<CustomFilter(TRUE, NoErr), CustomFilter(FALSE, NoErr)>>
  /\ result.r.evaluated = <<CustomFilter(TRUE, NoErr)>>
  /\ result.r.match

(***************************************************************************)
(* C16.  Not(F).Match calls F once and returns the negation of F's match   *)
(* when F returns no error, and F's error when F returns one.              *)
(***************************************************************************)
NotNegates ==
  MatchReturned("not") =>
    LET f == Match(op.filter.filter, op.fields)
        r == result.r
    IN /\ r.evaluated = <<op.filter.filter>>
       /\ f.err = NoErr => (r.match = ~f.match /\ r.err = NoErr)
       /\ f.err # NoErr => r.err = f.err

\* C16 as stated: in addition Not(Not(F)) agrees with F, in match and in
\* error, on every message.
C16_NotNegates_Original ==
  /\ NotNegates
  /\ (MatchReturned("not") /\ op.filter.filter.k = "not") =>
       LET f == Match(op.filter.filter.filter, op.fields) IN
       result.r.match = f.match /\ result.r.err = f.err

\* C16 as amended: Not(Not(F)) returns F's error when F returns one, and
\* agrees with F's match when F returns no error.
C16_NotNegates ==
  /\ NotNegates
  /\ (MatchReturned("not") /\ op.filter.filter.k = "not") =>
       LET f == Match(op.filter.filter.filter, op.fields) IN
       /\ result.r.err = f.err
       /\ f.err = NoErr => result.r.match = f.match

\* Not(Not(F)) has been called with an F that returns (true, error).
C16_Witness ==
  /\ MatchReturned("not")
  /\ op.filter = Not(Not(CustomFilter(TRUE, ErrOther)))
  /\ result.r.err = ErrOther
  /\ ~result.r.match

(***************************************************************************)
(* C17.  Fields.Value returns (value, true) exactly when every component   *)
(* of the path but the last names a key whose value is a nested message    *)
(* and the last names a key of the message reached; otherwise, and for an  *)
(* empty path, it returns (nil, false); the message is left as it was.     *)
(***************************************************************************)
C17_ValueResolves ==
  result.kind = "value" =>
    /\ result.r.ok = Resolves(op.fields, op.path)
    /\ result.r.v = (IF Resolves(op.fields, op.path) THEN Resolved(op.fields, op.path)
                     ELSE Nil)
    /\ result.fields = op.fields

\* The path user.id has been resolved to 1 in {"user": {"id": 1}}.
C17_Witness ==
  /\ result.kind = "value"
  /\ op.fields = [user |-> FieldsV([id |-> Int(1)])]
  /\ op.path = <<"user", "id">>
  /\ result.r = [v |-> Int(1), ok |-> TRUE]

(***************************************************************************)
(* C18.  FieldExist(path).Match returns true exactly when the path         *)
(* resolves in the message, whatever the value found, a nil value          *)
(* included, and never returns an error.                                   *)
(***************************************************************************)
C18_FieldExistMatch ==
  (result.kind = "match" /\ op.filter.k = "fieldExist") =>
    /\ result.r.match = Resolves(op.fields, op.filter.path)
    /\ result.r.err = NoErr
    /\ ~result.r.panic

\* FieldExist("a") has matched a message that holds nil under "a".
C18_Witness ==
  /\ result.kind = "match"
  /\ op.filter = FieldExist(<<"a">>)
  /\ op.fields = [a |-> Nil]
  /\ result.r.match

(***************************************************************************)
(* C19.  Eq(path, v).Match returns true exactly when the path resolves and *)
(* the value found equals v; nested messages and sequences never compare   *)
(* equal; Match returns normally and without error in every case.          *)
(***************************************************************************)
C19_EqMatch ==
  (result.kind = "match" /\ op.filter.k = "eq") =>
    LET resolves == Resolves(op.fields, op.filter.path) IN
    /\ ~result.r.panic
    /\ result.r.err = NoErr
    /\ result.r.match = (/\ resolves
                         /\ op.filter.value.t \notin {"fields", "slice"}
                         /\ Resolved(op.fields, op.filter.path) = op.filter.value)

(***************************************************************************)
(* C20.  A filter built from an empty path string or from a path with an   *)
(* empty segment never resolves: FieldExist and Eq built from it match no  *)
(* message.                                                                *)
(***************************************************************************)
C20_EmptySegmentNeverResolves ==
  (/\ result.kind = "match"
   /\ op.filter.k \in {"fieldExist", "eq"}
   /\ \E i \in 1..Len(op.filter.path) : op.filter.path[i] = "") =>
    ~result.r.match

(***************************************************************************)
(* C21.  Log treats the message as read-only: at every step of a Log call  *)
(* and when it returns, the message and its nested messages have the keys  *)
(* and values they had when Log was called.                                *)
(***************************************************************************)
C21_MessageReadOnly ==
  \A p \in Procs : fields[p] = given[p]

\* The keys of the JSON text j, at every depth.
RECURSIVE EmittedKeys(_)
EmittedKeys(j) ==
  CASE j.t = "obj" ->
         {j.kv[i][1] : i \in 1..Len(j.kv)}
           \cup UNION {EmittedKeys(j.kv[i][2]) : i \in 1..Len(j.kv)}
    [] j.t = "arr" -> UNION {EmittedKeys(j.e[i]) : i \in 1..Len(j.e)}
    [] OTHER -> {}

\* Keys that begin with the reserved prefix '_'.
Reserved(k) == k \in UnderscoreKeys

\* JSONFormatter.Format has been called and has returned or panicked.
Formatted == result.kind = "format" /\ op.formatter = JSONFormatter

EmptyObject == [t |-> "obj", kv |-> <<>>]

(***************************************************************************)
(* C22.  The default formatter never emits a key that begins with '_',     *)
(* whatever value is stored under it: Format returns, its output holds     *)
(* only keys that do not begin with '_', and a message with only reserved  *)
(* keys, a nil message and an empty message format to {}.                  *)
(***************************************************************************)
C22_ReservedKeysNeverEmitted ==
  Formatted =>
    /\ ~result.r.panic
    /\ result.r.err = NoErr => \A k \in EmittedKeys(result.r.b) : ~Reserved(k)
    /\ (\A k \in DOMAIN op.fields : Reserved(k)) =>
         (result.r.err = NoErr /\ result.r.b = EmptyObject)

\* The position of key k in byte order.
Pos(k) == CHOOSE i \in 1..Len(KeyOrder) : KeyOrder[i] = k

\* The members of the JSON object j are in strictly increasing key order.
Increasing(j) ==
  \A i, n \in 1..Len(j.kv) : i < n => Pos(j.kv[i][1]) < Pos(j.kv[n][1])

\* The JSON object j, the output for message m, follows the sort settings:
\* m's own "_sort" if it has one, else the setting inherited from its parent.
RECURSIVE SortedAs(_, _, _)
SortedAs(m, j, inherited) ==
  LET s == IF FieldSort \in DOMAIN m THEN m[FieldSort].b ELSE inherited
  IN /\ s => Increasing(j)
     /\ \A i \in 1..Len(j.kv) :
          LET v == m[j.kv[i][1]] IN
          v.t = "fields" => SortedAs(v.m, j.kv[i][2], s)

(***************************************************************************)
(* C23.  With "_sort" true the default formatter emits the non-reserved    *)
(* keys in increasing order; a nested message (a Fields value stored under *)
(* a key) with no "_sort" of its own is emitted with its parent's setting, *)
(* and one that has its own "_sort" is emitted with its own.               *)
(***************************************************************************)
C23_SortedOutput ==
  (Formatted /\ ~result.r.panic /\ result.r.err = NoErr) =>
    SortedAs(op.fields, result.r.b, FALSE)

\* A sorted message with a nested message of two keys and no flag of its own
\* has been formatted.
C23_Witness ==
  /\ Formatted
  /\ result.r.err = NoErr /\ ~result.r.panic
  /\ op.fields = [level |-> Str("info"), user |-> FieldsV([id |-> Int(1), a |-> Int(2)]),
                  _sort |-> Bool(TRUE)]
  /\ result.r.b = [t |-> "obj", kv |->
                     << <<"level", Str("info")>>,
                        <<"user", [t |-> "obj", kv |-> << <<"a", Int(2)>>, <<"id", Int(1)>> >>]>> >>]

(***************************************************************************)
(* C24.  Every successful delivery appends exactly the formatter's bytes   *)
(* followed by exactly one line terminator and nothing else: each sink is  *)
(* a sequence of records, each directly followed by one "\n" of the same   *)
(* delivery, in the order of the Log calls, and a Log call that returns    *)
(* has added exactly one such line for every unfiltered destination.       *)
(***************************************************************************)
C24_OneLinePerDelivery ==
  /\ \A w \in Writers : \A i \in 1..Len(sink[w]) :
       LET c == sink[w][i] IN
       /\ i % 2 = 1 => c.part = "rec"
       /\ i % 2 = 0 => /\ c.part = "nl" /\ c.b = Str("\n")
                       /\ c.call = sink[w][i - 1].call /\ c.id = sink[w][i - 1].id
       /\ (c.part = "rec" /\ i = Len(sink[w])) =>
            \E p \in Procs :
              /\ pc[p] = "writenl" /\ call[p] = c.call /\ cur[p] = c.id
              /\ c.b = buf[p]
              /\ \E r \in Format(outputs[c.id].Formatter, fields[p]) :
                   r.err = NoErr /\ ~r.panic /\ r.b = c.b
       /\ \A n \in 1..Len(sink[w]) : i < n => c.call <= sink[w][n].call
  /\ \A p \in Procs : pc[p] = "unlock" =>
       \A id \in DOMAIN outputs : Plain(outputs[id]) =>
         LET w == outputs[id].Writer IN
         /\ Cardinality(Chunks(w, call[p], id, "rec")) = 1
         /\ Cardinality(Chunks(w, call[p], id, "nl")) = 1

\* Two sequential Log calls have each delivered to destination "a": its sink
\* holds two terminated records, the first call's first.
C24_Witness ==
  /\ \A p \in Procs : pc[p] = "idle"
  /\ nlog = 2
  /\ Len(sink["w1"]) = 4
  /\ \A i \in 1..4 : sink["w1"][i].id = "a" /\ sink["w1"][i].call = (i + 1) \div 2
  /\ sink["w1"][1].b = sink["w1"][3].b

\* The positions of p's trace where the write of a record failed.
FailedWrites(p) ==
  {i \in 1..Len(trace[p]) : trace[p][i].ev = "write" /\ ~trace[p][i].ok}

(***************************************************************************)
(* C26.  If writing the formatted bytes to a sink fails, no line           *)
(* terminator is written to that sink in this Log call, the error handler  *)
(* (one being set) is invoked exactly once for that destination with the   *)
(* error of that write, and Log goes on with the next destination.         *)
(***************************************************************************)
C26_FailedWriteAbandonsDestination ==
  \A p \in Procs : \A i \in FailedWrites(p) :
    LET id == trace[p][i].id IN
    errorHandler # NoHandler =>
      /\ \A n \in EventsOf(p, id) : trace[p][n].ev # "nl"
      /\ \A w \in Writers :
           Chunks(w, call[p], id, "nl") = {} /\ Chunks(w, call[p], id, "rec") = {}
      /\ \/ i = Len(trace[p]) /\ pc[p] = "writenl"
         \/ /\ i < Len(trace[p])
            /\ trace[p][i + 1] = Ev(id, "report", TRUE, trace[p][i].err, errorHandler)
            /\ {n \in Reports(p, id) : trace[p][n].err = ErrWrite} = {i + 1}
            /\ i + 1 = Len(trace[p]) => pc[p] \in {"range", "filter", "format", "unlock"}

\* A write has failed, the handler was told, and Log has handled another
\* destination after that.
C26_Witness ==
  \E p \in Procs : \E i \in FailedWrites(p) :
    /\ errorHandler # NoHandler
    /\ i + 1 < Len(trace[p])
    /\ trace[p][i + 2].id # trace[p][i].id
    /\ pc[p] = "unlock"

\* The positions of p's trace that hold event ev of destination id.
EvAt(p, id, ev) == {i \in EventsOf(p, id) : trace[p][i].ev = ev}

\* The steps p's Log call has taken for destination id are steps of one
\* visit, in the order sink check, filter, format, write.
OneVisitInOrder(p, id) ==
  LET E == EventsOf(p, id)
      o == outputs[id]
  IN /\ \A i, n \in E : \A x \in i..n : x \in E
     /\ \A ev \in {"nosink", "filter", "format", "write", "nl"} :
          Cardinality(EvAt(p, id, ev)) <= 1
     /\ EvAt(p, id, "nosink") # {} => (Cardinality(E) = 1 /\ ~SinkPresent(o))
     /\ E # {} /\ EvAt(p, id, "nosink") = {} => SinkPresent(o)
     /\ \A i \in EvAt(p, id, "filter") :
          /\ \A n \in E : i <= n
          /\ ~trace[p][i].ok => EvAt(p, id, "format") = {}
     /\ \A i \in EvAt(p, id, "format") :
          /\ o.Filter # NoFilter => \E n \in EvAt(p, id, "filter") : n < i /\ trace[p][n].ok
          /\ o.Filter = NoFilter => \A n \in E : i <= n
     /\ \A i \in EvAt(p, id, "write") :
          \E n \in EvAt(p, id, "format") : n < i /\ trace[p][n].ok
     /\ \A i \in EvAt(p, id, "nl") :
          \E n \in EvAt(p, id, "write") : n < i /\ trace[p][n].ok

\* A destination is visited at most once while Log runs, and exactly once
\* when Log returns.
VisitedOnce(p) ==
  /\ \A id \in DOMAIN outputs :
       /\ OneVisitInOrder(p, id)
       /\ id \in todo[p] => EventsOf(p, id) = {}
  /\ pc[p] = "unlock" =>
       /\ todo[p] = {}
       /\ \A id \in DOMAIN outputs : EventsOf(p, id) # {}

(***************************************************************************)
(* C28.  In one Log call every registered destination is handled exactly   *)
(* once, its steps in the order sink check, filter, format, write: with an *)
(* absent sink neither filter nor formatter is invoked, with a filter that *)
(* does not match the formatter is not invoked, filter and formatter are   *)
(* invoked at most once, and while Log runs the registry and the error     *)
(* handler do not change.                                                  *)
(***************************************************************************)
C28_OneVisitPerDestination ==
  /\ [](\A p \in Procs : InLog(p) => VisitedOnce(p))
  /\ [][(\E p \in Procs : InLog(p)) =>
          (outputs' = outputs /\ errorHandler' = errorHandler)]_vars

\* A Log call is returning after it skipped a destination without sink and
\* filtered, formatted and wrote for another.
C28_Witness ==
  \E p \in Procs :
    /\ pc[p] = "unlock"
    /\ \E id \in DOMAIN outputs : EvAt(p, id, "nosink") # {}
    /\ \E id \in DOMAIN outputs :
         /\ EvAt(p, id, "filter") # {}
         /\ EvAt(p, id, "format") # {}
         /\ EvAt(p, id, "nl") # {}

\* What Log does for destination o when o is handled on the message m as the
\* caller gave it, whatever was handled before: whether it writes a record,
\* and the bytes it may write.
RecordsAlone(o, m) ==
  IF ~SinkPresent(o) \/ o.Writer \in FailingWriters THEN {}
  ELSE IF o.Filter # NoFilter /\ (Match(o.Filter, m).panic \/ ~Match(o.Filter, m).match)
  THEN {}
  ELSE {r.b : r \in {x \in Format(o.Formatter, m) : x.err = NoErr /\ ~x.panic}}

\* The records p's Log call has written for destination id.
RecordsOf(p, id) ==
  UNION {{sink[w][i].b : i \in Chunks(w, call[p], id, "rec")} : w \in Writers}

(***************************************************************************)
(* C29.  The outcome of one Log call does not depend on the order in which *)
(* the registry is iterated: when Log ends, each destination has received  *)
(* a record exactly if it receives one when it is handled first, on the    *)
(* message as given, and the bytes are the ones written in that case.      *)
(***************************************************************************)
C29_OrderIndependent ==
  \A p \in Procs : pc[p] \in {"unlock", "panic"} =>
    \A id \in DOMAIN outputs :
      /\ RecordsOf(p, id) \subseteq RecordsAlone(outputs[id], given[p])
      /\ RecordsAlone(outputs[id], given[p]) # {} => RecordsOf(p, id) # {}

\* The last thing p's Log call did was to call a handler that calls the router.
CalledReentrantHandler(p) ==
  /\ InLog(p)
  /\ trace[p] # <<>>
  /\ trace[p][Len(trace[p])].ev = "report"
  /\ trace[p][Len(trace[p])].h \in ReentrantHandlers

(***************************************************************************)
(* C27.  The error handler is invoked inside Log while the router's lock   *)
(* is held.  Once Log has called a handler that calls Register or OnError  *)
(* on the router, that goroutine stays inside the handler holding the      *)
(* lock, and from then on no Register, OnError or Log call on the router   *)
(* starts, proceeds or returns.                                            *)
(***************************************************************************)
C27_ReentrantHandlerBlocksRouter ==
  /\ [](\A p \in Procs :
          /\ (\E i \in 1..Len(trace[p]) : trace[p][i].ev = "report") => mu.w = p
          /\ CalledReentrantHandler(p) => pc[p] = "handler")
  /\ [][(\E p \in Procs : pc[p] = "handler") =>
          /\ pc' = pc /\ mu' = mu
          /\ outputs' = outputs /\ errorHandler' = errorHandler
          /\ nlog' = nlog /\ sink' = sink]_vars

\* A Log call is inside a handler that calls Register, with destinations
\* still to visit, while the other goroutine is outside the router.
C27_Witness ==
  \E p \in Procs :
    /\ pc[p] = "handler"
    /\ errorHandler = "hRegister"
    /\ mu.w = p
    /\ todo[p] # {}
    /\ \A q \in Procs \ {p} : pc[q] = "idle"

\* The keys Logger.Log may add.
LoggerKeys == {FieldTime, FieldLogger, FieldFile, FieldSort}

(***************************************************************************)
(* C25.  Logger.Log adds the time, logger, file and "_sort" fields only    *)
(* when the key is absent from the message it is given: every field the    *)
(* caller supplied reaches the router unchanged, a nil message is treated  *)
(* as an empty one, and the message the router receives always has the     *)
(* "_sort" key, set to the logger's SortFields when the caller gave none.  *)
(***************************************************************************)
C25_EnrichOnlyAbsent ==
  \A i \in 1..Len(spy) :
    LET c == spy[i]
        g == IF c.given.isNil THEN EmptyFields ELSE c.given.m
    IN /\ \A k \in DOMAIN g : k \in DOMAIN c.got /\ c.got[k] = g[k]
       /\ DOMAIN c.got \ DOMAIN g \subseteq LoggerKeys
       /\ FieldSort \in DOMAIN c.got
       /\ FieldSort \notin DOMAIN g => c.got[FieldSort] = Bool(c.config.SortFields)
       /\ c.given.isNil => c.got = Enriched(c.config, EmptyFields, c.at, c.site)

\* A logger with a name and a time format was given a message with the
\* caller's own "time": the router got the caller's time and the logger's name.
C25_Witness ==
  \E i \in 1..Len(spy) :
    /\ spy[i].given = FieldsRef([time |-> Str("now1")])
    /\ spy[i].config.TimeFormat # "" /\ spy[i].config.Name = "monkey"
    /\ spy[i].got[FieldTime] = Str("now1")
    /\ spy[i].got[FieldLogger] = Str("monkey")
    /\ FieldSort \in DOMAIN spy[i].got

(***************************************************************************)
(* C30.  Logger.Log writes its fields into the caller's own Fields object, *)
(* so when the same object is logged again, through the same or another    *)
(* logger, the time, logger, file and "_sort" values of the first call are *)
(* in it and are kept: the later record carries them.                      *)
(***************************************************************************)
C30_SecondLogKeepsFirstStamps ==
  /\ (spy # <<>> /\ ~callerFields.isNil) => callerFields.m = spy[Len(spy)].got
  /\ \A i, n \in 1..Len(spy) :
       (i < n /\ ~spy[i].given.isNil) =>
         /\ spy[n].given = FieldsRef(spy[n - 1].got)
         /\ \A k \in LoggerKeys \cap DOMAIN spy[i].got : spy[n].got[k] = spy[i].got[k]

\* One object was logged by two different loggers at two times: the second
\* record has the time, name and position of the first call.
C30_Witness ==
  /\ Len(spy) = 2
  /\ spy[1].given = FieldsRef([level |-> Str("info")])
  /\ spy[1].config = LoggerConfig("monkey", RFC3339, FALSE, ShortFileLine, TRUE)
  /\ spy[2].config = LoggerConfig("logger", RFC3339, TRUE, LongFileLine, FALSE)
  /\ spy[1].site # spy[2].site
  /\ spy[2].got[FieldTime] = TimeString(1, RFC3339, FALSE)
  /\ spy[2].got[FieldLogger] = Str("monkey")
  /\ spy[2].got[FieldFile] = FileString(ShortFile(spy[1].site.file), spy[1].site.line)
  /\ spy[2].got[FieldSort] = Bool(TRUE)

====
